---- MODULE Spec2Model ----
(***************************************************************************)
(* wizcast (gitcast_library): the byte-budget segmenter                    *)
(* TextToSpeechService._chunk_text and the multi-part artifact assembler   *)
(* TextToSpeechService.synthesize_to_mp3 of services.py.                    *)
(*                                                                         *)
(* A text is a sequence of characters; a character is a one-element        *)
(* string.  "E" stands for a character whose UTF-8 encoding is two bytes   *)
(* long (such as e-acute), every other character encodes to one byte.      *)
(***************************************************************************)
EXTENDS Integers, Sequences, FiniteSets, TLC

\* ------------------------------------------------------------------------
\* Bounds of the model
\* ------------------------------------------------------------------------
\* longest text handed to the segmenter
MaxLen == 5
\* largest byte budget (tts_chunk_limit_bytes) tried
MaxBudget == 4

\* ------------------------------------------------------------------------
\* Characters and strings
\* ------------------------------------------------------------------------
NL == "\n"
SP == " "
Alphabet == {"a", "E", ".", SP, NL}

\* str.strip() and the regex class \s: the whitespace of the alphabet
IsSpace(c) == c \in {SP, NL}

\* the character class [.!?] of the sentence regex
IsSentenceEnd(c) == c \in {".", "!", "?"}

\* len(c.encode('utf-8')) of one character
CharBytes(c) == IF c = "E" THEN 2 ELSE 1

RECURSIVE Utf8Len(_)
\* len(s.encode('utf-8'))
Utf8Len(s) == IF s = <<>> THEN 0 ELSE CharBytes(Head(s)) + Utf8Len(Tail(s))

RECURSIVE LStrip(_)
LStrip(s) == IF s # <<>> /\ IsSpace(Head(s)) THEN LStrip(Tail(s)) ELSE s

RECURSIVE RStrip(_)
RStrip(s) ==
    IF s # <<>> /\ IsSpace(s[Len(s)]) THEN RStrip(SubSeq(s, 1, Len(s) - 1)) ELSE s

\* str.strip()
Strip(s) == LStrip(RStrip(s))

\* Python truthiness of c.strip()
IsBlank(s) == Strip(s) = <<>>

\* s[a:b] of Python for 0 <= a (0-based, b exclusive, clipped to len(s))
Slice(s, a, b) ==
    LET hi == IF b < Len(s) THEN b ELSE Len(s)
    IN  IF a >= hi THEN <<>> ELSE SubSeq(s, a + 1, hi)

RECURSIVE SplitParagraphs(_)
\* text.split('\n\n'): cut at every non-overlapping "\n\n", left to right;
\* empty pieces are kept
SplitParagraphs(s) ==
    LET hits == {k \in 1..(Len(s) - 1) : s[k] = NL /\ s[k + 1] = NL}
    IN  IF hits = {} THEN <<s>>
        ELSE LET k == CHOOSE h \in hits : \A g \in hits : h <= g
             IN  <<SubSeq(s, 1, k - 1)>> \o SplitParagraphs(SubSeq(s, k + 2, Len(s)))

RECURSIVE SplitSentences(_)
\* re.split(r'(?<=[.!?])\s+', paragraph): cut at every maximal whitespace run
\* that directly follows '.', '!' or '?'; the run itself is dropped
SplitSentences(s) ==
    LET hits == {p \in 2..Len(s) : IsSentenceEnd(s[p - 1]) /\ IsSpace(s[p])}
    IN  IF hits = {} THEN <<s>>
        ELSE LET p == CHOOSE h \in hits : \A g \in hits : h <= g
                 run == {q \in p..Len(s) : \A r \in p..q : IsSpace(s[r])}
                 q == CHOOSE h \in run : \A g \in run : g <= h
             IN  <<SubSeq(s, 1, p - 1)>> \o SplitSentences(SubSeq(s, q + 1, Len(s)))

\* ------------------------------------------------------------------------
\* TextToSpeechService._chunk_text
\* ------------------------------------------------------------------------
\* self.tts_chunk_limit_bytes // 1.5, as used by int(start_idx + ...)
estimated_max_chars(limit) == (2 * limit) \div 3

RECURSIVE RefineShrink(_, _)
\* while len(sub_sentence.encode('utf-8')) > limit:
\*     sub_sentence = sub_sentence[:-1]; if not sub_sentence: break
RefineShrink(sub, limit) ==
    IF Utf8Len(sub) > limit
    THEN LET cut == SubSeq(sub, 1, Len(sub) - 1)
         IN  IF cut = <<>> THEN cut ELSE RefineShrink(cut, limit)
    ELSE sub

\* mutant of refine_sub_sentence: the candidate prefix is not trimmed
refine_sub_sentence_untrimmed(sub, limit) == sub

\* the refinement of one candidate prefix of the hard split
refine_sub_sentence(sub, limit) == RefineShrink(sub, limit)

\* mutant of hard_split_next: no break, the index moves by the length of the
\* piece even when the piece is empty
hard_split_next_without_break(sentence, start_idx, limit) ==
    start_idx + Len(refine_sub_sentence(
        Slice(sentence, start_idx, start_idx + estimated_max_chars(limit)), limit))

\* lines 144-158, one iteration of the while loop started at start_idx: the
\* next value of start_idx, or -1 when the loop is left by the break
hard_split_next(sentence, start_idx, limit) ==
    LET sub0 == Slice(sentence, start_idx, start_idx + estimated_max_chars(limit))
        sub == refine_sub_sentence(sub0, limit)
    IN  IF sub # <<>> THEN start_idx + Len(sub) ELSE -1

RECURSIVE HardSplitFrom(_, _, _)
\* the while start_idx < len(sentence) loop: the pieces appended to chunks
HardSplitFrom(sentence, start_idx, limit) ==
    IF start_idx < Len(sentence)
    THEN LET sub0 == Slice(sentence, start_idx, start_idx + estimated_max_chars(limit))
             sub == refine_sub_sentence(sub0, limit)
         IN  IF sub # <<>>
             THEN <<sub>> \o HardSplitFrom(sentence, start_idx + Len(sub), limit)
             ELSE <<>>
    ELSE <<>>

hard_split(sentence, limit) == HardSplitFrom(sentence, 0, limit)

RECURSIVE SentenceLoop(_, _, _, _)
\* for sentence in sentences: ... ; st = [chunks, temp] where temp is
\* temp_sentence_chunk.  Returns the state after the last sentence.
SentenceLoop(sentences, k, st, limit) ==
    IF k > Len(sentences) THEN st
    ELSE LET sentence == Strip(sentences[k])
             sep == IF st.temp # <<>> THEN 1 ELSE 0
         IN  IF sentence = <<>> THEN SentenceLoop(sentences, k + 1, st, limit)
             ELSE IF Utf8Len(st.temp) + sep + Utf8Len(sentence) <= limit
             THEN SentenceLoop(sentences, k + 1,
                      [st EXCEPT !.temp = IF st.temp # <<>>
                                          THEN st.temp \o <<SP>> \o sentence
                                          ELSE sentence], limit)
             ELSE LET flushed == IF st.temp # <<>>
                                 THEN Append(st.chunks, st.temp) ELSE st.chunks
                  IN  IF Utf8Len(sentence) > limit
                      THEN SentenceLoop(sentences, k + 1,
                               [chunks |-> flushed \o hard_split(sentence, limit),
                                temp |-> <<>>], limit)
                      ELSE SentenceLoop(sentences, k + 1,
                               [chunks |-> flushed, temp |-> sentence], limit)

\* the oversized-paragraph branch: the chunks after the sentence-level pass
split_paragraph_by_sentences(chunks, paragraph, limit) ==
    LET st == SentenceLoop(SplitSentences(paragraph), 1,
                           [chunks |-> chunks, temp |-> <<>>], limit)
    IN  IF st.temp # <<>> THEN Append(st.chunks, st.temp) ELSE st.chunks

\* mutant of paragraph_fits: the separator is not counted
paragraph_fits_without_separator(cur, sep, paragraph, limit) ==
    Utf8Len(cur) + Utf8Len(paragraph) <= limit

\* lines 117-118: the paragraph still fits current_chunk; sep is the size of
\* the separator, 2 when current_chunk is not empty
paragraph_fits(cur, sep, paragraph, limit) ==
    Utf8Len(cur) + sep + Utf8Len(paragraph) <= limit

RECURSIVE ParagraphLoop(_, _, _, _)
\* for paragraph in paragraphs: ... ; st = [chunks, cur] where cur is
\* current_chunk.  Returns the state after the last paragraph.
ParagraphLoop(paragraphs, k, st, limit) ==
    IF k > Len(paragraphs) THEN st
    ELSE LET paragraph == Strip(paragraphs[k])
             sep == IF st.cur # <<>> THEN 2 ELSE 0
         IN  IF paragraph = <<>> THEN ParagraphLoop(paragraphs, k + 1, st, limit)
             ELSE IF paragraph_fits(st.cur, sep, paragraph, limit)
             THEN ParagraphLoop(paragraphs, k + 1,
                      [st EXCEPT !.cur = IF st.cur # <<>>
                                         THEN st.cur \o <<NL, NL>> \o paragraph
                                         ELSE paragraph], limit)
             ELSE LET flushed == IF st.cur # <<>>
                                 THEN Append(st.chunks, st.cur) ELSE st.chunks
                  IN  IF Utf8Len(paragraph) > limit
                      THEN ParagraphLoop(paragraphs, k + 1,
                               [chunks |-> split_paragraph_by_sentences(flushed, paragraph, limit),
                                cur |-> <<>>], limit)
                      ELSE ParagraphLoop(paragraphs, k + 1,
                               [chunks |-> flushed, cur |-> paragraph], limit)

RECURSIVE FilterBlank(_)
\* [c for c in chunks if c.strip()]
FilterBlank(chunks) ==
    IF chunks = <<>> THEN <<>>
    ELSE IF IsBlank(Head(chunks)) THEN FilterBlank(Tail(chunks))
    ELSE <<Head(chunks)>> \o FilterBlank(Tail(chunks))

\* the final filter of _chunk_text
drop_blank_chunks(chunks) == FilterBlank(chunks)

_chunk_text(text, limit) ==
    IF text = <<>> THEN <<>>
    ELSE LET st == ParagraphLoop(SplitParagraphs(text), 1,
                                 [chunks |-> <<>>, cur |-> <<>>], limit)
             chunks == IF st.cur # <<>> THEN Append(st.chunks, st.cur) ELSE st.chunks
         IN  drop_blank_chunks(chunks)

\* ------------------------------------------------------------------------
\* ReleaseNotesSource._chunk_text_by_paragraphs (src/gitcast_library/datasources.py)
\* ------------------------------------------------------------------------
RECURSIVE JoinWith(_, _)
\* sep.join(parts)
JoinWith(parts, sep) ==
    IF parts = <<>> THEN <<>>
    ELSE IF Len(parts) = 1 THEN Head(parts)
    ELSE Head(parts) \o sep \o JoinWith(Tail(parts), sep)

\* "\n\n".join(current_chunk_paragraphs)
join_paragraphs(paragraphs) == JoinWith(paragraphs, <<NL, NL>>)

\* mutant of paragraph_overflows: the two separator characters are not counted
paragraph_overflows_without_separator(cur, count, paragraph_len, max_chars) ==
    cur # <<>> /\ count + paragraph_len > max_chars

\* lines 124-125: the paragraph does not fit the chunk being built
paragraph_overflows(cur, count, paragraph_len, max_chars) ==
    cur # <<>> /\ count + paragraph_len + 2 > max_chars

RECURSIVE CharParagraphLoop(_, _, _, _)
\* for paragraph in paragraphs: ... ; st = [chunks, cur, count] where cur is
\* current_chunk_paragraphs and count is current_chunk_char_count
CharParagraphLoop(paragraphs, k, st, max_chars) ==
    IF k > Len(paragraphs) THEN st
    ELSE LET paragraph == paragraphs[k]
             paragraph_len == Len(paragraph)
             st1 == IF paragraph_overflows(st.cur, st.count, paragraph_len, max_chars)
                    THEN [chunks |-> Append(st.chunks, join_paragraphs(st.cur)),
                          cur |-> <<>>, count |-> 0]
                    ELSE st
             cur2 == Append(st1.cur, paragraph)
             st2 == [chunks |-> st1.chunks, cur |-> cur2,
                     count |-> st1.count + paragraph_len
                                 + (IF Len(cur2) > 1 THEN 2 ELSE 0)]
             st3 == IF paragraph_len > max_chars /\ Len(st2.cur) = 1
                    THEN [chunks |-> Append(st2.chunks, join_paragraphs(st2.cur)),
                          cur |-> <<>>, count |-> 0]
                    ELSE st2
         IN  IF IsBlank(paragraph)
             THEN CharParagraphLoop(paragraphs, k + 1, st, max_chars)
             ELSE CharParagraphLoop(paragraphs, k + 1, st3, max_chars)

_chunk_text_by_paragraphs(text, max_chars) ==
    LET st == CharParagraphLoop(SplitParagraphs(text), 1,
                                [chunks |-> <<>>, cur |-> <<>>, count |-> 0], max_chars)
        chunks == IF st.cur # <<>>
                  THEN Append(st.chunks, join_paragraphs(st.cur)) ELSE st.chunks
    IN  FilterBlank(chunks)

\* ------------------------------------------------------------------------
\* State
\* ------------------------------------------------------------------------
VARIABLES
    tts_chunk_limit_bytes, \* TextToSpeechService.tts_chunk_limit_bytes
    segText,               \* the text handed to a direct call of _chunk_text
    segPc,                 \* "off" | "input" | "returned": the direct call
    segOut,                \* what the direct call returned
    fs,                    \* the files under the base path: path -> file
    pc,                    \* position in synthesize_to_mp3
    plain_text,            \* markdown_to_plain_text(text_to_speak)
    overwrite,             \* config.overwrite_tts of the call
    text_chunks,           \* local text_chunks
    i,                     \* 1-based index of the segment the loop is at
    part_mp3_files,        \* local part_mp3_files
    synthesis_successful_for_all,
    valid_part_files,      \* local valid_part_files
    result,                \* the returned list of paths
    synth_log,             \* calls of _synthesize_single_chunk: [seg, out]
    valid_when_reached,    \* segments whose part was valid when reached
    combine_log,           \* combine attempts: [manifest, out]
    delete_failed,         \* parts whose os.remove raised OSError
    single_out,            \* outcome of the single-part remove/rename
    collected,             \* the call got past the production loop
    clean,                 \* no file existed when the call started
    startFinal,            \* base.mp3 and base_full.mp3 when the call started
    loopFs,                \* fs when the production loop ended
    prev,                  \* the call before the current one, see Summary
    paraPc,                \* "off" | "input" | "returned": the direct call of
                           \* _chunk_text_by_paragraphs
    paraOut,               \* what that call returned
    rn_summarization_chunk_char_limit,  \* config value, max_chars of the call
    max_release_notes_length,           \* config value
    llm_service,           \* TRUE iff fetch_content got an llm_service
    combined_content_str,  \* local combined_content_str of fetch_content
    rnPc,                  \* position in fetch_content
    chunk_summary_prompt,  \* "unread" | "loaded" | "missing"
    final_rn_section_prompt,            \* "unread" | "loaded" | "missing"
    rn_text_chunks,        \* local text_chunks of fetch_content
    rn_i,                  \* 1-based index of the chunk the loop is at
    individual_summaries,  \* local individual_summaries
    llm_log,               \* calls of generate_summary: [system, user, reply]
    rn_result,             \* what fetch_content returned
    orchPc,                \* position in GitCastOrchestrator.run
    llm_input,             \* what _collect_content_from_sources returned
    skip_llm,              \* config.skip_llm
    skip_tts,              \* config.skip_tts
    overwrite_summary,     \* config.overwrite_summary
    orch_llm_service,      \* TRUE iff self.llm_service is set
    orch_tts_service,      \* TRUE iff self.tts_service is set
    system_prompt,         \* load_file_content(system_prompt_filepath)
    summary_file,          \* the file at summary_text_filepath
    summary_file_at_start, \* that file when run() started
    generated_script,      \* local generated_script, then script_text of run
    script_llm_log,        \* replies of generate_summary in the summary stage
    tts_calls              \* number of calls of synthesize_to_mp3 by run()

segVars == <<tts_chunk_limit_bytes, segText, segPc, segOut>>

runVars == <<pc, plain_text, overwrite, text_chunks, i, part_mp3_files,
             synthesis_successful_for_all, valid_part_files, result,
             synth_log, valid_when_reached, combine_log, delete_failed,
             single_out, collected, clean, startFinal, loopFs>>

asmVars == <<fs, runVars, prev>>

paraVars == <<paraPc, paraOut>>

fetchVars == <<max_release_notes_length, llm_service, combined_content_str, rnPc,
               chunk_summary_prompt, final_rn_section_prompt, rn_text_chunks, rn_i,
               individual_summaries, llm_log, rn_result>>

rnVars == <<paraVars, rn_summarization_chunk_char_limit, fetchVars>>

orchVars == <<orchPc, llm_input, skip_llm, skip_tts, overwrite_summary,
              orch_llm_service, orch_tts_service, system_prompt, summary_file,
              summary_file_at_start, generated_script, script_llm_log, tts_calls>>

vars == <<segVars, asmVars, rnVars, orchVars>>

\* ------------------------------------------------------------------------
\* Files
\* ------------------------------------------------------------------------
\* part files base_part1.mp3 .. base_part{MaxParts}.mp3 are tracked
MaxParts == 3

PartPath(k) == <<"_part", k>>
BasePath == <<".mp3", 0>>
FullPath == <<"_full.mp3", 0>>
ListPath == <<"_concat_list.txt", 0>>

PartPaths == {PartPath(k) : k \in 1..MaxParts}
Paths == PartPaths \cup {BasePath, FullPath, ListPath}

\* A file: missing, present with size 0, or present with content.  gen tells
\* whether the content was written during the current call ("new") or was
\* there before it ("old"); src lists the segments a new content was made of.
Absent == [st |-> "absent", gen |-> "-", src |-> <<>>]
Empty == [st |-> "empty", gen |-> "-", src |-> <<>>]
Old == [st |-> "data", gen |-> "old", src |-> <<>>]
New(src) == [st |-> "data", gen |-> "new", src |-> src]

\* os.path.exists(f)
Exists(f) == f.st # "absent"

\* os.path.exists(f) and os.path.getsize(f) > 0
ExistsNonEmpty(f) == f.st = "data"

\* content written by an earlier call is old to the next one
Aged(files) == [p \in DOMAIN files |-> IF files[p].st = "data" THEN Old ELSE files[p]]

\* base.mp3 and base_full.mp3 of a file system
Finals(files) == [p \in {BasePath, FullPath} |-> files[p]]

NoPrev == [ok |-> FALSE, failed |-> FALSE, text |-> <<>>, result |-> <<>>]

\* ------------------------------------------------------------------------
\* TextToSpeechService._synthesize_single_chunk
\* ------------------------------------------------------------------------
\* "ok": audio written; "ok_empty": the API returned no audio bytes, an empty
\* file is written; "fail_keep": an exception before the file is opened (API
\* error, open() error); "fail_trunc": an exception after open(.., "wb")
\* truncated the file (write error)
SynthOutcomes == {"ok", "ok_empty", "fail_keep", "fail_trunc"}

\* the return value of _synthesize_single_chunk
synthesize_returns(out) == out \in {"ok", "ok_empty"}

\* the part file after _synthesize_single_chunk(chunk k, part k)
synthesize_file(old, k, out) ==
    CASE out = "ok" -> New(<<k>>)
      [] out = "ok_empty" -> Empty
      [] out = "fail_trunc" -> Empty
      [] OTHER -> old

\* ------------------------------------------------------------------------
\* TextToSpeechService.synthesize_to_mp3
\* ------------------------------------------------------------------------
\* texts the assembler is called with: k paragraphs "aa"
RECURSIVE Paragraphs(_)
Paragraphs(k) ==
    IF k = 0 THEN <<>>
    ELSE IF k = 1 THEN <<"a", "a">>
    ELSE Paragraphs(k - 1) \o <<NL, NL, "a", "a">>

AsmTexts == {Paragraphs(k) : k \in 0..MaxParts}

\* the call that just returned started with no file under the base path, had
\* overwrite = false, and every synthesis and the combine (when there was
\* one) succeeded
CleanSuccess ==
    /\ pc = "done"
    /\ clean
    /\ ~overwrite
    /\ \A c \in 1..Len(synth_log) : synth_log[c].out = "ok"
    /\ \A c \in 1..Len(combine_log) : combine_log[c].out = "ok"

\* the current call started with no file under the base path and one of its
\* synthesis calls returned False
HadFailedSegment ==
    /\ clean
    /\ \E c \in 1..Len(synth_log) : ~synthesize_returns(synth_log[c].out)

\* what the next call remembers of the call that just returned: its text and
\* its result if it was a CleanSuccess, its text if it started with no file
\* and a segment failed
Summary ==
    IF CleanSuccess
    THEN [ok |-> TRUE, failed |-> FALSE, text |-> plain_text, result |-> result]
    ELSE IF HadFailedSegment
    THEN [ok |-> FALSE, failed |-> TRUE, text |-> plain_text, result |-> <<>>]
    ELSE NoPrev

\* lines 202-223: the guards, the segmentation and the locals
Start(t, ov) ==
    /\ pc = "idle"
    /\ clean' = \A p \in Paths : ~Exists(fs[p])
    /\ startFinal' = Finals(fs)
    /\ loopFs' = fs
    /\ plain_text' = t
    /\ overwrite' = ov
    /\ LET chunks == IF IsBlank(t) THEN <<>> ELSE _chunk_text(t, tts_chunk_limit_bytes)
       IN  /\ text_chunks' = chunks
           /\ pc' = IF chunks = <<>> THEN "done" ELSE "loop"
    /\ i' = 1
    /\ part_mp3_files' = <<>>
    /\ synthesis_successful_for_all' = TRUE
    /\ valid_part_files' = <<>>
    /\ result' = <<>>
    /\ synth_log' = <<>>
    /\ valid_when_reached' = {}
    /\ combine_log' = <<>>
    /\ delete_failed' = {}
    /\ single_out' = "-"
    /\ collected' = FALSE
    /\ UNCHANGED <<segVars, rnVars, orchVars, fs, prev>>

\* the call has returned: the caller holds the result, the locals are gone,
\* and what the call wrote is old content for the next call
Return ==
    /\ pc = "done"
    /\ pc' = "idle"
    /\ prev' = Summary
    /\ fs' = Aged(fs)
    /\ clean' = FALSE
    /\ startFinal' = Finals(Aged(fs))
    /\ loopFs' = Aged(fs)
    /\ plain_text' = <<>>
    /\ overwrite' = FALSE
    /\ text_chunks' = <<>>
    /\ i' = 1
    /\ part_mp3_files' = <<>>
    /\ synthesis_successful_for_all' = TRUE
    /\ valid_part_files' = <<>>
    /\ result' = <<>>
    /\ synth_log' = <<>>
    /\ valid_when_reached' = {}
    /\ combine_log' = <<>>
    /\ delete_failed' = {}
    /\ single_out' = "-"
    /\ collected' = FALSE
    /\ UNCHANGED <<segVars, rnVars, orchVars>>

\* mutant of should_skip: the size of the part is not looked at
should_skip_any_file(ov, part) == ~ov /\ Exists(part)

\* line 229: skip the synthesis of a segment
should_skip(ov, part) == ~ov /\ ExistsNonEmpty(part)

\* mutant of after_chunk: a failed synthesis ends the call
after_chunk_abort(k, n, success) ==
    IF ~success THEN "done" ELSE IF k < n THEN "loop" ELSE "collect"

\* where the call goes after segment k of n: a False from
\* _synthesize_single_chunk only clears synthesis_successful_for_all
after_chunk(k, n, success) == IF k < n THEN "loop" ELSE "collect"

\* lines 225-233: one iteration of the production loop
SynthStep ==
    /\ pc = "loop"
    /\ part_mp3_files' = Append(part_mp3_files, PartPath(i))
    /\ valid_when_reached' =
           IF ExistsNonEmpty(fs[PartPath(i)])
           THEN valid_when_reached \cup {i} ELSE valid_when_reached
    /\ IF should_skip(overwrite, fs[PartPath(i)])
       THEN /\ pc' = after_chunk(i, Len(text_chunks), TRUE)
            /\ UNCHANGED <<fs, synth_log, synthesis_successful_for_all>>
       ELSE \E out \in SynthOutcomes :
                /\ fs' = [fs EXCEPT ![PartPath(i)] = synthesize_file(@, i, out)]
                /\ synth_log' = Append(synth_log, [seg |-> i, out |-> out])
                /\ synthesis_successful_for_all' =
                       (synthesis_successful_for_all /\ synthesize_returns(out))
                /\ pc' = after_chunk(i, Len(text_chunks), synthesize_returns(out))
    /\ i' = i + 1
    /\ UNCHANGED <<segVars, rnVars, orchVars, prev, plain_text, overwrite, text_chunks,
                   valid_part_files, result, combine_log, delete_failed,
                   single_out, collected, clean, startFinal, loopFs>>

RECURSIVE FilterValid(_, _)
FilterValid(paths, files) ==
    IF paths = <<>> THEN <<>>
    ELSE IF ExistsNonEmpty(files[Head(paths)])
    THEN <<Head(paths)>> \o FilterValid(Tail(paths), files)
    ELSE FilterValid(Tail(paths), files)

RECURSIVE FilterExisting(_, _)
FilterExisting(paths, files) ==
    IF paths = <<>> THEN <<>>
    ELSE IF Exists(files[Head(paths)])
    THEN <<Head(paths)>> \o FilterExisting(Tail(paths), files)
    ELSE FilterExisting(Tail(paths), files)

RECURSIVE Reversed(_)
Reversed(seq) == IF seq = <<>> THEN <<>> ELSE Append(Reversed(Tail(seq)), Head(seq))

\* mutant of collect_valid: the valid parts are listed last segment first
collect_valid_reversed(paths, files) == Reversed(FilterValid(paths, files))

\* mutant of collect_valid: an empty part file counts as valid
collect_valid_any_size(paths, files) == FilterExisting(paths, files)

\* line 239: [f for f in part_mp3_files if exists(f) and getsize(f) > 0]
collect_valid(paths, files) == FilterValid(paths, files)

\* mutant of branch_on_valid: the first valid part is renamed to base.mp3
\* however many valid parts there are
branch_on_valid_rename_first(valid) ==
    IF valid = <<>> THEN "done" ELSE "single"

\* lines 241, 247, 310: the branch taken on the number of valid parts
branch_on_valid(valid) ==
    IF valid = <<>> THEN "done"
    ELSE IF Len(valid) > 1 THEN "combine" ELSE "single"

\* lines 239-247, 310: collect the valid parts and branch on their number
Collect ==
    /\ pc = "collect"
    /\ LET valid == collect_valid(part_mp3_files, fs)
       IN  /\ valid_part_files' = valid
           /\ pc' = branch_on_valid(valid)
    /\ result' = <<>>
    /\ collected' = TRUE
    /\ loopFs' = fs
    /\ UNCHANGED <<segVars, rnVars, orchVars, prev, fs, plain_text, overwrite, text_chunks, i,
                   part_mp3_files, synthesis_successful_for_all, synth_log,
                   valid_when_reached, combine_log, delete_failed, single_out,
                   clean, startFinal>>

\* "ok": ffmpeg exit code 0; "nonzero": another exit code; "notfound":
\* FileNotFoundError (no ffmpeg); "exception": any other exception while the
\* manifest is written or ffmpeg is run
CombineOutcomes == {"ok", "nonzero", "notfound", "exception"}

\* lines 286-308: what the combine attempt returns
combine_returns(out, valid) == IF out = "ok" THEN <<FullPath>> ELSE valid

\* mutant of combine_removes: the parts are removed whatever ffmpeg returned
combine_removes_always(out, valid, failed) ==
    {valid[k] : k \in 1..Len(valid)} \ failed

\* mutant of combine_removes: the cleanup stops after the first part
combine_removes_first(out, valid, failed) ==
    IF out = "ok" THEN {valid[1]} \ failed ELSE {}

\* lines 291-294: the parts removed after the combine attempt; failed is the
\* set of parts whose os.remove raised OSError
combine_removes(out, valid, failed) ==
    IF out = "ok" THEN {valid[k] : k \in 1..Len(valid)} \ failed ELSE {}

\* mutant of manifest_after_combine: the manifest is removed on the success
\* path only
manifest_after_combine_success_only(out) ==
    IF out = "ok" THEN Absent ELSE New(<<>>)

\* lines 260-264, 303-304: base_concat_list.txt after the combine attempt; the
\* finally clause removes it if it exists, whatever happened in the try block
manifest_after_combine(out) == Absent

\* mutant of keep_existing_combined: an empty base_full.mp3 is recombined
keep_existing_combined_if_nonempty(ov, full) == ~ov /\ ExistsNonEmpty(full)

\* line 250: the combined file exists and is not to be overwritten
keep_existing_combined(ov, full) == ~ov /\ Exists(full)

\* lines 247-308: more than one valid part
Combine ==
    /\ pc = "combine"
    /\ IF keep_existing_combined(overwrite, fs[FullPath])
       THEN /\ result' = <<FullPath>>
            /\ UNCHANGED <<fs, combine_log, delete_failed>>
       ELSE \E out \in CombineOutcomes :
            \E failed \in SUBSET {valid_part_files[k] : k \in 1..Len(valid_part_files)} :
                /\ Cardinality(failed) <= 1
                /\ out # "ok" => failed = {}
                /\ LET gone == combine_removes(out, valid_part_files, failed)
                   IN  fs' = [p \in Paths |->
                                 IF p \in gone THEN Absent
                                 ELSE IF p = ListPath THEN manifest_after_combine(out)
                                 ELSE IF p = FullPath /\ out = "ok"
                                 THEN New([k \in 1..Len(valid_part_files) |->
                                              valid_part_files[k][2]])
                                 ELSE fs[p]]
                /\ combine_log' = Append(combine_log,
                                         [manifest |-> valid_part_files, out |-> out])
                /\ delete_failed' = failed
                /\ result' = combine_returns(out, valid_part_files)
    /\ pc' = "done"
    /\ UNCHANGED <<segVars, rnVars, orchVars, prev, plain_text, overwrite, text_chunks, i,
                   part_mp3_files, synthesis_successful_for_all,
                   valid_part_files, synth_log, valid_when_reached, single_out,
                   collected, clean, startFinal, loopFs>>

\* "ok": the rename succeeds; "remove_fails": os.remove of the existing
\* target raises OSError; "rename_fails": os.rename raises OSError
SingleOutcomes == {"ok", "remove_fails", "rename_fails"}

\* mutant of single_returns: the kept part is returned when base.mp3 exists
single_returns_kept_part(keep_existing, out, part) ==
    IF ~keep_existing /\ out = "ok" THEN <<BasePath>> ELSE <<part>>

\* lines 320-335: what the single-part branch returns
single_returns(keep_existing, out, part) ==
    IF keep_existing \/ out = "ok" THEN <<BasePath>> ELSE <<part>>

\* lines 310-335: exactly one valid part.  A part path never equals the target
\* path base.mp3, so the test of line 316 is never true.
RenameSingle ==
    /\ pc = "single"
    /\ LET part == valid_part_files[1]
           keep == Exists(fs[BasePath]) /\ ~overwrite
       IN  IF keep
           THEN /\ result' = single_returns(TRUE, "-", part)
                /\ UNCHANGED <<fs, single_out>>
           ELSE \E out \in SingleOutcomes :
                    /\ out = "remove_fails" => Exists(fs[BasePath])
                    /\ fs' = CASE out = "ok" ->
                                      [fs EXCEPT ![BasePath] = fs[part], ![part] = Absent]
                               [] out = "rename_fails" ->
                                      [fs EXCEPT ![BasePath] = Absent]
                               [] OTHER -> fs
                    /\ single_out' = out
                    /\ result' = single_returns(FALSE, out, part)
    /\ pc' = "done"
    /\ UNCHANGED <<segVars, rnVars, orchVars, prev, plain_text, overwrite, text_chunks, i,
                   part_mp3_files, synthesis_successful_for_all,
                   valid_part_files, synth_log, valid_when_reached, combine_log,
                   delete_failed, collected, clean, startFinal, loopFs>>

\* files found under the base path before the first call
InitialFiles == {Absent, Empty, Old}

\* bounds of the release-notes inputs: the length of the combined text, the
\* largest max_release_notes_length and rn_summarization_chunk_char_limit
MaxRnLen == 7
MaxDirect == 3
MaxChars == 3

\* None, and a value that is truthy: not None and not the empty string
NoneValue == <<"None">>
Truthy(x) == x # NoneValue /\ x # <<>>

\* the file at summary_text_filepath: missing, of size 0, of non-zero size but
\* unreadable (open or decoding raises), or holding a text
NoFile == [st |-> "absent", text |-> <<>>]
EmptyFile == [st |-> "empty", text |-> <<>>]
UnreadableFile == [st |-> "unreadable", text |-> <<>>]
TextFile(t) == [st |-> "data", text |-> t]

\* GitCastOrchestrator.run is not running
OrchOff ==
    /\ orchPc = "off"
    /\ llm_input = <<>>
    /\ skip_llm = FALSE
    /\ skip_tts = FALSE
    /\ overwrite_summary = FALSE
    /\ orch_llm_service = FALSE
    /\ orch_tts_service = FALSE
    /\ system_prompt = NoneValue
    /\ summary_file = NoFile
    /\ summary_file_at_start = NoFile
    /\ generated_script = NoneValue
    /\ script_llm_log = <<>>
    /\ tts_calls = 0

\* fetch_content is not running
FetchOff ==
    /\ max_release_notes_length = MaxDirect
    /\ llm_service = FALSE
    /\ combined_content_str = <<>>
    /\ rnPc = "off"
    /\ chunk_summary_prompt = "unread"
    /\ final_rn_section_prompt = "unread"
    /\ rn_text_chunks = <<>>
    /\ rn_i = 1
    /\ individual_summaries = <<>>
    /\ llm_log = <<>>
    /\ rn_result = <<>>

Init ==
    /\ tts_chunk_limit_bytes \in {1, MaxBudget}
    /\ segText = <<>>
    /\ segPc = "off"
    /\ segOut = <<>>
    /\ fs \in [Paths -> InitialFiles]
    /\ fs[ListPath] = Absent
    /\ pc = "idle"
    /\ plain_text = <<>>
    /\ overwrite = FALSE
    /\ text_chunks = <<>>
    /\ i = 1
    /\ part_mp3_files = <<>>
    /\ synthesis_successful_for_all = TRUE
    /\ valid_part_files = <<>>
    /\ result = <<>>
    /\ synth_log = <<>>
    /\ valid_when_reached = {}
    /\ combine_log = <<>>
    /\ delete_failed = {}
    /\ single_out = "-"
    /\ collected = FALSE
    /\ clean = FALSE
    /\ startFinal = Finals(fs)
    /\ loopFs = fs
    /\ prev = NoPrev
    /\ paraPc = "off"
    /\ paraOut = <<>>
    /\ rn_summarization_chunk_char_limit = MaxChars
    /\ FetchOff
    /\ OrchOff

Next ==
    \/ \E t \in AsmTexts, ov \in BOOLEAN : Start(t, ov)
    \/ SynthStep
    \/ Collect
    \/ Combine
    \/ RenameSingle
    \/ Return

Spec == Init /\ [][Next]_vars

\* ------------------------------------------------------------------------
\* Properties of synthesize_to_mp3 (checked under Spec)
\* ------------------------------------------------------------------------
\* the elements of a sequence
Range(seq) == {seq[k] : k \in 1..Len(seq)}

RECURSIVE OrderedValidParts(_, _)
\* the part paths of segments 1..n that exist with non-zero size in files, by
\* increasing segment index
OrderedValidParts(files, n) ==
    IF n = 0 THEN <<>>
    ELSE OrderedValidParts(files, n - 1) \o
         (IF files[PartPath(n)].st = "data" THEN <<PartPath(n)>> ELSE <<>>)

\* number of calls of _synthesize_single_chunk for segment k
CallsFor(k) == Cardinality({c \in 1..Len(synth_log) : synth_log[c].seg = k})

\* the production loop of the current call is over
LoopOver == pc \in {"collect", "combine", "single", "done"} /\ text_chunks # <<>>

\* a combine attempt was made and failed / succeeded
CombineFailed == pc = "done" /\ combine_log # <<>> /\ combine_log[1].out # "ok"
CombineSucceeded == pc = "done" /\ combine_log # <<>> /\ combine_log[1].out = "ok"

\* C1: a second call with overwrite = false on the same text, after a first
\* call that started with no artifacts and succeeded throughout, returns the
\* paths of the first call and makes no synthesis call and no combine call.
C1_SecondCallRedoesNothing ==
    (pc = "done" /\ prev.ok /\ ~overwrite /\ plain_text = prev.text) =>
        /\ result = prev.result
        /\ synth_log = <<>>
        /\ combine_log = <<>>

\* C2: every path a call returns names a file that exists with non-zero size
\* at the moment of return.
C2_ReturnedPathsExistNonEmpty ==
    pc = "done" => \A k \in 1..Len(result) : ExistsNonEmpty(fs[result[k]])

\* C3: when the combine attempt on two or more valid parts fails, the call
\* returns exactly the ordered valid part paths (at least two, none of them
\* base_full.mp3), no part file is deleted or changed, and every returned part
\* still exists.
C3_CombineFailureReturnsParts ==
    CombineFailed =>
        /\ result = OrderedValidParts(loopFs, Len(text_chunks))
        /\ Len(result) >= 2
        /\ FullPath \notin Range(result)
        /\ \A p \in PartPaths : fs[p] = loopFs[p]
        /\ \A k \in 1..Len(result) : ExistsNonEmpty(fs[result[k]])

C3_Witness ==
    /\ CombineFailed
    /\ combine_log[1].out = "nonzero"
    /\ result = <<PartPath(1), PartPath(2)>>

\* C4 as claimed: after a successful combine the call returns [base_full.mp3]
\* and none of the combined part files exists.
C4_PartsGoneAfterCombine ==
    CombineSucceeded =>
        /\ result = <<FullPath>>
        /\ \A p \in Range(combine_log[1].manifest) : ~Exists(fs[p])

\* C4 as amended: after a successful combine the call returns
\* [base_full.mp3]; every combined part file whose os.remove did not raise
\* OSError is gone, a part whose removal raised is left as it was.
C4_PartsGoneUnlessRemoveFails ==
    CombineSucceeded =>
        /\ result = <<FullPath>>
        /\ \A p \in Range(combine_log[1].manifest) :
               IF p \in delete_failed THEN fs[p] = loopFs[p] ELSE ~Exists(fs[p])

C4_Witness ==
    /\ CombineSucceeded
    /\ delete_failed = {}
    /\ combine_log[1].manifest = <<PartPath(1), PartPath(2)>>
    /\ ~Exists(fs[PartPath(1)]) /\ ~Exists(fs[PartPath(2)])

\* C7: with overwrite = false the synthesis is not called for a segment whose
\* part file was valid when the loop reached it and is called exactly once for
\* every other segment; with overwrite = true it is called exactly once for
\* every segment.
C7_SkipIfValid ==
    LET reached == IF LoopOver THEN Len(text_chunks) ELSE Len(part_mp3_files)
    IN  /\ LoopOver => Len(part_mp3_files) = Len(text_chunks)
        /\ \A k \in 1..reached :
               CallsFor(k) = IF ~overwrite /\ k \in valid_when_reached THEN 0 ELSE 1

C7_Witness ==
    /\ pc = "done"
    /\ ~overwrite
    /\ Len(text_chunks) >= 2
    /\ 1 \in valid_when_reached /\ CallsFor(1) = 0
    /\ 2 \notin valid_when_reached /\ CallsFor(2) = 1

\* C8 as claimed: a call on a text of exactly one segment that returns
\* anything returns [base.mp3].
C8_SingleSegmentReturnsCanonical ==
    (pc = "done" /\ Len(text_chunks) = 1 /\ result # <<>>) => result = <<BasePath>>

\* C8 as amended: a call on a text of exactly one segment that returns
\* anything returns [base.mp3], unless removing the existing base.mp3 or
\* renaming the part raised OSError: then it returns [base_part1.mp3].
C8_SingleSegmentCanonicalUnlessOSError ==
    (pc = "done" /\ Len(text_chunks) = 1 /\ result # <<>>) =>
        result = IF single_out \in {"remove_fails", "rename_fails"}
                 THEN <<PartPath(1)>> ELSE <<BasePath>>

C8_Witness ==
    /\ pc = "done"
    /\ Len(text_chunks) = 1
    /\ single_out = "ok"
    /\ ~Exists(fs[PartPath(1)])
    /\ fs[BasePath] = New(<<1>>)
    /\ result = <<BasePath>>

\* C9: when no part file of the call exists with non-zero size after the
\* production loop, the call returns the empty list, makes no combine attempt
\* and leaves base.mp3 and base_full.mp3 as they were when it started.
C9_NoValidPartsNothingProduced ==
    (LoopOver /\ collected /\ pc = "done"
       /\ \A k \in 1..Len(text_chunks) : ~ExistsNonEmpty(loopFs[PartPath(k)])) =>
        /\ result = <<>>
        /\ combine_log = <<>>
        /\ single_out = "-"
        /\ Finals(fs) = startFinal

C9_Witness ==
    /\ pc = "done" /\ collected
    /\ Len(text_chunks) >= 2
    /\ \A k \in 1..Len(text_chunks) : ~ExistsNonEmpty(loopFs[PartPath(k)])
    /\ \E k \in 1..Len(text_chunks) : loopFs[PartPath(k)].st = "empty"
    /\ result = <<>>

\* C10: a failed synthesis does not end the call: the loop handles the
\* segments 1, 2, ... in order, each once, whatever the outcomes, and every
\* call that entered the loop reaches the collect stage.
C10_FailureDoesNotAbort ==
    /\ \A j \in 1..Len(part_mp3_files) : part_mp3_files[j] = PartPath(j)
    /\ \A c \in 1..Len(synth_log) : \A d \in 1..Len(synth_log) :
           c < d => synth_log[c].seg < synth_log[d].seg
    /\ pc = "loop" => Len(part_mp3_files) = i - 1 /\ i <= Len(text_chunks)
    /\ LoopOver => Len(part_mp3_files) = Len(text_chunks)
    /\ (pc \in {"combine", "single", "done"} /\ text_chunks # <<>>) => collected

C10_Witness ==
    /\ pc = "done" /\ collected
    /\ Len(synth_log) >= 2
    /\ synth_log[1].seg = 1 /\ ~synthesize_returns(synth_log[1].out)
    /\ synth_log[2].seg = 2 /\ synth_log[2].out = "ok"
    /\ result # <<>>

\* C11: a segment whose synthesis call failed in the current call is not in
\* the valid-parts list of that call, whatever overwrite is and whatever files
\* earlier calls left.
C11_FailedSegmentsExcluded ==
    collected =>
        \A c \in 1..Len(synth_log) :
            ~synthesize_returns(synth_log[c].out) =>
                PartPath(synth_log[c].seg) \notin Range(valid_part_files)

\* C18: with two or more valid parts after the loop, an existing
\* base_full.mp3 and overwrite = false, the call returns [base_full.mp3],
\* makes no combine attempt (no manifest, no ffmpeg) and changes no file.
C18_ExistingCombinedReturnedUntouched ==
    (pc = "done" /\ collected /\ ~overwrite
       /\ Len(OrderedValidParts(loopFs, Len(text_chunks))) >= 2
       /\ Exists(loopFs[FullPath])) =>
        /\ result = <<FullPath>>
        /\ combine_log = <<>>
        /\ fs = loopFs

C18_Witness ==
    /\ pc = "done" /\ collected /\ ~overwrite
    /\ valid_part_files = <<PartPath(1), PartPath(2)>>
    /\ loopFs[FullPath] = Empty
    /\ result = <<FullPath>>
    /\ combine_log = <<>>

\* ------------------------------------------------------------------------
\* The segmenter applied to every bounded text and budget
\* ------------------------------------------------------------------------
RECURSIVE TextsOfLen(_)
TextsOfLen(n) ==
    IF n = 0 THEN {<<>>}
    ELSE {Append(t, c) : t \in TextsOfLen(n - 1), c \in Alphabet}

Texts == UNION {TextsOfLen(n) : n \in 0..MaxLen}

\* the budgets tried, 0 included: no character fits a budget of 0
Budgets == 0..MaxBudget

SegInit ==
    /\ segText \in Texts
    /\ tts_chunk_limit_bytes \in Budgets
    /\ segPc = "input"
    /\ segOut = <<>>
    /\ fs = [p \in Paths |-> Absent]
    /\ pc = "off"
    /\ plain_text = <<>>
    /\ overwrite = FALSE
    /\ text_chunks = <<>>
    /\ i = 1
    /\ part_mp3_files = <<>>
    /\ synthesis_successful_for_all = TRUE
    /\ valid_part_files = <<>>
    /\ result = <<>>
    /\ synth_log = <<>>
    /\ valid_when_reached = {}
    /\ combine_log = <<>>
    /\ delete_failed = {}
    /\ single_out = "-"
    /\ collected = FALSE
    /\ clean = FALSE
    /\ startFinal = Finals(fs)
    /\ loopFs = fs
    /\ prev = NoPrev
    /\ paraPc = "input"
    /\ paraOut = <<>>
    /\ rn_summarization_chunk_char_limit = tts_chunk_limit_bytes
    /\ FetchOff
    /\ OrchOff

\* one call of _chunk_text(text) with tts_chunk_limit_bytes = tts_chunk_limit_bytes
ChunkCall ==
    /\ segPc = "input"
    /\ segOut' = _chunk_text(segText, tts_chunk_limit_bytes)
    /\ segPc' = "returned"
    /\ UNCHANGED <<segText, tts_chunk_limit_bytes, asmVars, rnVars, orchVars>>

\* one call of _chunk_text_by_paragraphs(text, max_chars) on the same text,
\* with max_chars = rn_summarization_chunk_char_limit
ParaChunkCall ==
    /\ paraPc = "input"
    /\ paraOut' = _chunk_text_by_paragraphs(segText, rn_summarization_chunk_char_limit)
    /\ paraPc' = "returned"
    /\ UNCHANGED <<segVars, asmVars, orchVars, rn_summarization_chunk_char_limit, fetchVars>>

SegNext == ChunkCall \/ ParaChunkCall

SegSpec == SegInit /\ [][SegNext]_vars

\* ------------------------------------------------------------------------
\* ReleaseNotesSource.fetch_content from line 176 on: the combined text is
\* returned as it is, truncated, or summarised chunk by chunk
\* ------------------------------------------------------------------------
\* Replies of LLMService.generate_summary are sequences of characters; None
\* is a sequence of its own that no text equals.
NoneReply == <<"None">>

\* "Error:", the prefix of every failure message of generate_summary
ErrorReply == <<"E", "r", "r", "o", "r", ":">>

\* what generate_summary can return: a summary, the empty string, None, a
\* failure message, and a summary that happens to start with "error"
LlmReplies == {<<"s">>, <<>>, NoneReply, ErrorReply, <<"e", "r", "r", "o", "r">>}

\* str.lower() for one character
LowerChar(c) ==
    CASE c = "E" -> "e"
      [] c = "R" -> "r"
      [] c = "O" -> "o"
      [] OTHER -> c

\* s.lower()
Lower(s) == [k \in 1..Len(s) |-> LowerChar(s[k])]

\* s.startswith(prefix)
StartsWith(s, prefix) ==
    Len(s) >= Len(prefix) /\ SubSeq(s, 1, Len(prefix)) = prefix

\* mutant of summary_ok: the prefix is compared case-sensitively
summary_ok_case_sensitive(reply) ==
    /\ reply # NoneReply
    /\ reply # <<>>
    /\ ~StartsWith(reply, <<"e", "r", "r", "o", "r", ":">>)

\* lines 204 and 230: x and not x.lower().startswith("error:")
summary_ok(reply) ==
    /\ reply # NoneReply
    /\ reply # <<>>
    /\ ~StartsWith(Lower(reply), <<"e", "r", "r", "o", "r", ":">>)

\* str(n) for the chunk numbers that occur
IndexText(n) == <<"1", "2", "3", "4", "5", "6", "7", "8", "9">>[n]

\* line 210: f"[Error summarizing chunk {i+1}. Content snippet: {chunk[:150]}...]"
\* with index = i + 1
chunk_error_placeholder(index, chunk) ==
    <<"[Error summarizing chunk ", IndexText(index), ". Content snippet: ">>
        \o Slice(chunk, 0, 150) \o <<"...]">>

\* mutant of join_summaries: the summaries are joined by a blank line only
join_summaries_by_blank_line(summaries) == JoinWith(summaries, <<NL, NL>>)

\* line 216: "\n\n---\n\n".join(individual_summaries)
join_summaries(summaries) == JoinWith(summaries, <<NL, NL, "-", "-", "-", NL, NL>>)

\* mutant of within_direct_limit: a text of exactly the limit is summarised
within_direct_limit_strict(text, limit) == Len(text) < limit

\* line 178
within_direct_limit(text, limit) == Len(text) <= limit

\* lines 185, 190, 195: combined_content_str[:max_release_notes_length] + note
truncated(text, limit, note) == Slice(text, 0, limit) \o <<NL, NL, note>>

\* mutant of final_fallback: the failed reply itself is returned
final_fallback_reply(combined_summaries_text, reply) ==
    IF reply = NoneReply THEN <<>> ELSE reply

\* lines 233-235: what is returned when the final call failed
final_fallback(combined_summaries_text, reply) == combined_summaries_text

\* line 214
AggregateFailure == <<"[Error: Failed to process release notes through chunked summarization.]">>

\* lines 176-196: up to the first call of generate_summary
FetchContent ==
    /\ rnPc = "input"
    /\ IF within_direct_limit(combined_content_str, max_release_notes_length)
       THEN /\ rn_result' = combined_content_str
            /\ rnPc' = "returned"
            /\ UNCHANGED <<chunk_summary_prompt, rn_text_chunks>>
       ELSE IF ~llm_service
       THEN /\ rn_result' = truncated(combined_content_str, max_release_notes_length,
                                "[RELEASE NOTES CONTENT TRUNCATED - NO LLM FOR CHUNKING]")
            /\ rnPc' = "returned"
            /\ UNCHANGED <<chunk_summary_prompt, rn_text_chunks>>
       ELSE \E loaded \in {"loaded", "missing"} :
            /\ chunk_summary_prompt' = loaded
            /\ LET chunks == _chunk_text_by_paragraphs(combined_content_str,
                                 rn_summarization_chunk_char_limit)
               IN  IF loaded = "missing"
                   THEN /\ rn_result' = truncated(combined_content_str, max_release_notes_length,
                                            "[RN CONTENT TRUNCATED - CHUNK PROMPT MISSING]")
                        /\ rnPc' = "returned"
                        /\ UNCHANGED rn_text_chunks
                   ELSE IF chunks = <<>>
                   THEN /\ rn_result' = truncated(combined_content_str, max_release_notes_length,
                                            "[RN CONTENT TRUNCATED - CHUNKING FAILED]")
                        /\ rnPc' = "returned"
                        /\ rn_text_chunks' = chunks
                   ELSE /\ rn_text_chunks' = chunks
                        /\ rnPc' = "map"
                        /\ UNCHANGED rn_result
    /\ UNCHANGED <<segVars, asmVars, orchVars, paraVars, rn_summarization_chunk_char_limit,
                   max_release_notes_length, llm_service, combined_content_str,
                   final_rn_section_prompt, rn_i, individual_summaries, llm_log>>

\* lines 199-210: one iteration of the loop over text_chunks
SummarizeChunk ==
    /\ rnPc = "map"
    /\ \E reply \in LlmReplies :
        LET chunk == rn_text_chunks[rn_i]
        IN  /\ llm_log' = Append(llm_log, [system |-> "rn_chunk_summary_prompt",
                                           user |-> chunk, reply |-> reply])
            /\ individual_summaries' =
                   Append(individual_summaries,
                          IF summary_ok(reply) THEN reply
                          ELSE chunk_error_placeholder(rn_i, chunk))
    /\ rn_i' = rn_i + 1
    /\ rnPc' = IF rn_i = Len(rn_text_chunks) THEN "reduce" ELSE "map"
    /\ UNCHANGED <<segVars, asmVars, orchVars, paraVars, rn_summarization_chunk_char_limit,
                   max_release_notes_length, llm_service, combined_content_str,
                   chunk_summary_prompt, final_rn_section_prompt, rn_text_chunks,
                   rn_result>>

\* lines 212-235: after the loop
CombineSummaries ==
    /\ rnPc = "reduce"
    /\ rnPc' = "returned"
    /\ IF individual_summaries = <<>>
       THEN /\ rn_result' = AggregateFailure
            /\ UNCHANGED <<final_rn_section_prompt, llm_log>>
       ELSE LET combined_summaries_text == join_summaries(individual_summaries)
            IN  \E loaded \in {"loaded", "missing"} :
                /\ final_rn_section_prompt' = loaded
                /\ IF loaded = "missing"
                   THEN /\ rn_result' = combined_summaries_text
                        /\ UNCHANGED llm_log
                   ELSE \E reply \in LlmReplies :
                        /\ llm_log' = Append(llm_log,
                               [system |-> "rn_combine_summaries_prompt",
                                user |-> combined_summaries_text, reply |-> reply])
                        /\ rn_result' = IF summary_ok(reply) THEN reply
                                        ELSE final_fallback(combined_summaries_text, reply)
    /\ UNCHANGED <<segVars, asmVars, orchVars, paraVars, rn_summarization_chunk_char_limit,
                   max_release_notes_length, llm_service, combined_content_str,
                   chunk_summary_prompt, rn_text_chunks, rn_i, individual_summaries>>

RECURSIVE RnTextsOfLen(_)
\* the texts of n characters over a letter and the newline
RnTextsOfLen(n) ==
    IF n = 0 THEN {<<>>}
    ELSE {Append(t, c) : t \in RnTextsOfLen(n - 1), c \in {"a", NL}}

\* combined_content_str is never empty (line 171)
RnTexts == UNION {RnTextsOfLen(n) : n \in 1..MaxRnLen}

DirectBudgets == {1, MaxDirect}
CharLimits == {1, MaxChars}

RnInit ==
    /\ combined_content_str \in RnTexts
    /\ max_release_notes_length \in DirectBudgets
    /\ rn_summarization_chunk_char_limit \in CharLimits
    /\ llm_service \in BOOLEAN
    /\ rnPc = "input"
    /\ chunk_summary_prompt = "unread"
    /\ final_rn_section_prompt = "unread"
    /\ rn_text_chunks = <<>>
    /\ rn_i = 1
    /\ individual_summaries = <<>>
    /\ llm_log = <<>>
    /\ rn_result = <<>>
    /\ paraPc = "off"
    /\ paraOut = <<>>
    /\ tts_chunk_limit_bytes = MaxBudget
    /\ segText = <<>>
    /\ segPc = "off"
    /\ segOut = <<>>
    /\ fs = [p \in Paths |-> Absent]
    /\ pc = "off"
    /\ plain_text = <<>>
    /\ overwrite = FALSE
    /\ text_chunks = <<>>
    /\ i = 1
    /\ part_mp3_files = <<>>
    /\ synthesis_successful_for_all = TRUE
    /\ valid_part_files = <<>>
    /\ result = <<>>
    /\ synth_log = <<>>
    /\ valid_when_reached = {}
    /\ combine_log = <<>>
    /\ delete_failed = {}
    /\ single_out = "-"
    /\ collected = FALSE
    /\ clean = FALSE
    /\ startFinal = Finals(fs)
    /\ loopFs = fs
    /\ prev = NoPrev
    /\ OrchOff

RnNext == FetchContent \/ SummarizeChunk \/ CombineSummaries

RnSpec == RnInit /\ [][RnNext]_vars

\* ------------------------------------------------------------------------
\* Properties of _chunk_text (checked under SegSpec)
\* ------------------------------------------------------------------------
RECURSIVE Flatten(_)
\* the segments one after the other
Flatten(chunks) == IF chunks = <<>> THEN <<>> ELSE Head(chunks) \o Flatten(Tail(chunks))

RECURSIVE NonSpace(_)
\* the non-whitespace characters of a text, in order
NonSpace(s) ==
    IF s = <<>> THEN <<>>
    ELSE IF IsSpace(Head(s)) THEN NonSpace(Tail(s))
    ELSE <<Head(s)>> \o NonSpace(Tail(s))

\* the encoded size of the largest character of a text
MaxCharBytes(s) ==
    IF \E k \in 1..Len(s) : CharBytes(s[k]) = 2 THEN 2
    ELSE IF s = <<>> THEN 0 ELSE 1

\* C5: every segment _chunk_text returns is non-blank and its UTF-8 size is
\* at most the byte budget.
C5_SegmentsNonBlankWithinBudget ==
    segPc = "returned" =>
        \A k \in 1..Len(segOut) :
            /\ ~IsBlank(segOut[k])
            /\ Utf8Len(segOut[k]) <= tts_chunk_limit_bytes

\* a hard cut happened: one sentence without whitespace, larger than the
\* budget, holding a two-byte character that does not fit the estimate
C5_Witness ==
    /\ segPc = "returned"
    /\ segText = <<"E", "E", "a">>
    /\ tts_chunk_limit_bytes = 3
    /\ segOut = <<<<"E">>, <<"E", "a">>>>

\* C6: for a budget of at least the size of the largest character of the
\* text, the non-whitespace characters of the segments, in segment order, are
\* the non-whitespace characters of the text in their order.
C6_ContentPreserved ==
    (segPc = "returned" /\ tts_chunk_limit_bytes >= MaxCharBytes(segText)) =>
        NonSpace(Flatten(segOut)) = NonSpace(segText)

\* ------------------------------------------------------------------------
\* The hard split of _chunk_text (checked under SegSpec)
\* ------------------------------------------------------------------------
\* the sentences of a text that reach the hard split of lines 141-159: the
\* stripped sentences larger than the budget (such a sentence fits no chunk,
\* and its stripped paragraph is at least as large)
HardSplitSentences(text, limit) ==
    LET paragraphs == SplitParagraphs(text)
        stripped == {Strip(paragraphs[k]) : k \in 1..Len(paragraphs)}
        sentences == UNION {{Strip(SplitSentences(p)[k]) : k \in 1..Len(SplitSentences(p))} :
                            p \in stripped}
    IN  {s \in sentences : Utf8Len(s) > limit}

RECURSIVE HardSplitEnd(_, _, _)
\* the value of start_idx when the while loop of line 143 is left: len(sentence)
\* when the condition fails, less when the break of line 158 is taken
HardSplitEnd(sentence, start_idx, limit) ==
    IF start_idx < Len(sentence)
    THEN LET sub0 == Slice(sentence, start_idx, start_idx + estimated_max_chars(limit))
             sub == refine_sub_sentence(sub0, limit)
         IN  IF sub # <<>>
             THEN HardSplitEnd(sentence, start_idx + Len(sub), limit)
             ELSE start_idx
    ELSE start_idx

\* the hard split cannot make progress: it stops in front of a character
\* that alone is larger than the budget
HardSplitStuck(sentence, limit) ==
    LET e == HardSplitEnd(sentence, 0, limit)
    IN  e < Len(sentence) /\ CharBytes(sentence[e + 1]) > limit

\* _chunk_text has no raise statement and no error return: every call ends in
\* segPc = "returned" with a list of segments.
SegmenterFailedExplicitly == segPc = "raised"

\* C17: when the hard split of an oversized sentence cannot make progress
\* because the next character alone exceeds the byte budget, the call fails
\* explicitly instead of returning a list that omits the remaining text.
C17_StuckHardSplitFailsExplicitly ==
    (segPc # "input"
       /\ \E s \in HardSplitSentences(segText, tts_chunk_limit_bytes) :
              HardSplitStuck(s, tts_chunk_limit_bytes)) =>
        SegmenterFailedExplicitly

\* the longest prefix of s whose UTF-8 size is at most limit
LongestFittingPrefix(s, limit) ==
    LET fits == {n \in 0..Len(s) : Utf8Len(SubSeq(s, 1, n)) <= limit}
    IN  SubSeq(s, 1, CHOOSE n \in fits : \A m \in fits : m <= n)

RECURSIVE ExactHardSplit(_, _)
\* the hard cut without the character pre-estimate: repeatedly the longest
\* fitting prefix of the remaining text, stopping when nothing fits
ExactHardSplit(s, limit) ==
    IF s = <<>> THEN <<>>
    ELSE LET piece == LongestFittingPrefix(s, limit)
         IN  IF piece = <<>> THEN <<>>
             ELSE <<piece>> \o ExactHardSplit(SubSeq(s, Len(piece) + 1, Len(s)), limit)

\* C20: the pieces the hard split emits for a sentence larger than the budget
\* are those of the exact algorithm: each piece is the longest prefix of the
\* remaining sentence whose UTF-8 size is at most the budget.
C20_HardCutTakesLongestPrefix ==
    segPc = "returned" =>
        \A s \in HardSplitSentences(segText, tts_chunk_limit_bytes) :
            hard_split(s, tts_chunk_limit_bytes) = ExactHardSplit(s, tts_chunk_limit_bytes)

\* ------------------------------------------------------------------------
\* Properties of _chunk_text_by_paragraphs (checked under SegSpec)
\* ------------------------------------------------------------------------
\* one word: no whitespace inside
IsSingleWord(chunk) == chunk # <<>> /\ \A k \in 1..Len(chunk) : ~IsSpace(chunk[k])

\* C19: every chunk _chunk_text_by_paragraphs returns has at most max_chars
\* characters unless it is a single word longer than max_chars; a longer
\* paragraph is split further and not emitted whole.
C19_CharChunksWithinLimit ==
    paraPc = "returned" =>
        \A k \in 1..Len(paraOut) :
            \/ Len(paraOut[k]) <= rn_summarization_chunk_char_limit
            \/ IsSingleWord(paraOut[k])

\* ------------------------------------------------------------------------
\* Properties of fetch_content (checked under RnSpec)
\* ------------------------------------------------------------------------
\* a reply that counts as a failure: None, empty, or starting with "error:"
\* in any mix of upper and lower case
ReplyFailed(reply) ==
    \/ reply = NoneReply
    \/ reply = <<>>
    \/ /\ Len(reply) >= 6
       /\ [k \in 1..6 |-> LowerChar(reply[k])] = <<"e", "r", "r", "o", "r", ":">>

\* the entry names the 1-based index of the chunk and carries a non-empty
\* excerpt from the start of the chunk
IsPlaceholderFor(entry, index, chunk) ==
    /\ Len(entry) >= 5
    /\ entry[2] = IndexText(index)
    /\ LET excerpt == SubSeq(entry, 4, Len(entry) - 1)
       IN  /\ Len(excerpt) <= Len(chunk)
           /\ excerpt = SubSeq(chunk, 1, Len(excerpt))

ChunkPrompt == "rn_chunk_summary_prompt"
FinalPrompt == "rn_combine_summaries_prompt"

\* the number of chunks the loop has dealt with
ChunksDone ==
    CASE rnPc = "map" -> rn_i - 1
      [] rnPc \in {"reduce", "returned"} -> Len(rn_text_chunks)
      [] OTHER -> 0

\* the calls of generate_summary made with the per-chunk prompt
ChunkCalls == {k \in 1..Len(llm_log) : llm_log[k].system = ChunkPrompt}

\* C12: a per-chunk reply that is None, empty or starts with "error:" (in any
\* case) counts as a failure and every other reply as a success; a failure
\* does not stop the loop: chunk k gets exactly the k-th call, and the
\* intermediate list has one entry per chunk in chunk order, the reply of a
\* successful call and, for a failed one, a placeholder naming k and an
\* excerpt of the chunk.
C12_FailureIsolation ==
    /\ ChunkCalls = 1..ChunksDone
    /\ Len(individual_summaries) = ChunksDone
    /\ \A k \in 1..ChunksDone :
        /\ llm_log[k].user = rn_text_chunks[k]
        /\ IF ReplyFailed(llm_log[k].reply)
           THEN IsPlaceholderFor(individual_summaries[k], k, rn_text_chunks[k])
           ELSE individual_summaries[k] = llm_log[k].reply

\* the first of two chunks fails with a capitalised error message, the second
\* is still summarised
C12_Witness ==
    /\ rnPc = "reduce"
    /\ rn_text_chunks = <<<<"a">>, <<"a">>>>
    /\ llm_log[1].reply = ErrorReply
    /\ llm_log[2].reply = <<"s">>
    /\ individual_summaries[2] = <<"s">>
    /\ IsPlaceholderFor(individual_summaries[1], 1, <<"a">>)

\* C13: when the per-chunk call fails for every chunk, fetch_content returns
\* the aggregate-failure text instead of a result built from the per-chunk
\* entries.
C13_AllChunksFailedAggregateFailure ==
    (rnPc = "returned" /\ rn_text_chunks # <<>>
       /\ \A k \in 1..Len(rn_text_chunks) : ReplyFailed(llm_log[k].reply)) =>
        rn_result = AggregateFailure

\* the entries of the intermediate list as the log of calls determines them
ExpectedEntries ==
    [k \in 1..Len(rn_text_chunks) |->
        IF ReplyFailed(llm_log[k].reply)
        THEN chunk_error_placeholder(k, rn_text_chunks[k])
        ELSE llm_log[k].reply]

Separator == <<NL, NL, "-", "-", "-", NL, NL>>

\* the final call of generate_summary was made
FinalCallMade ==
    /\ rnPc = "returned"
    /\ Len(llm_log) = Len(rn_text_chunks) + 1
    /\ llm_log[Len(llm_log)].system = FinalPrompt

\* C14: when the final call over the intermediate concatenation fails,
\* fetch_content returns that concatenation unchanged (the per-chunk entries in
\* chunk order joined by the separator), not an error and not an empty text.
C14_FinalFailureReturnsIntermediate ==
    (FinalCallMade /\ ReplyFailed(llm_log[Len(llm_log)].reply)) =>
        /\ rn_result = JoinWith(ExpectedEntries, Separator)
        /\ rn_result = llm_log[Len(llm_log)].user
        /\ ~ReplyFailed(rn_result)

C14_Witness ==
    /\ FinalCallMade
    /\ Len(rn_text_chunks) = 2
    /\ llm_log[3].reply = ErrorReply
    /\ rn_result = <<"s">> \o Separator \o <<"s">>

\* C15: when the text is longer than max_release_notes_length, an llm_service
\* and both prompts are there, the text has n >= 1 chunks and no call fails,
\* fetch_content makes n per-chunk calls in chunk order, then one final call
\* on r_1 + sep + ... + r_n, and returns the reply of that call.
C15_TwoLevelMapReduce ==
    (rnPc = "returned"
       /\ Len(combined_content_str) > max_release_notes_length
       /\ llm_service
       /\ chunk_summary_prompt = "loaded"
       /\ final_rn_section_prompt = "loaded"
       /\ rn_text_chunks # <<>>
       /\ \A k \in 1..Len(llm_log) : ~ReplyFailed(llm_log[k].reply)) =>
        LET n == Len(rn_text_chunks)
        IN  /\ Len(llm_log) = n + 1
            /\ \A k \in 1..n : /\ llm_log[k].system = ChunkPrompt
                               /\ llm_log[k].user = rn_text_chunks[k]
            /\ llm_log[n + 1].system = FinalPrompt
            /\ llm_log[n + 1].user =
                   JoinWith([k \in 1..n |-> llm_log[k].reply], Separator)
            /\ rn_result = llm_log[n + 1].reply

C15_Witness ==
    /\ rnPc = "returned"
    /\ Len(rn_text_chunks) = 2
    /\ Len(llm_log) = 3
    /\ llm_log[1].reply = <<"s">>
    /\ llm_log[2].reply = <<"e", "r", "r", "o", "r">>
    /\ llm_log[3].user = <<"s">> \o Separator \o <<"e", "r", "r", "o", "r">>
    /\ llm_log[3].reply = <<"s">>
    /\ rn_result = <<"s">>

\* C16: a combined text of at most max_release_notes_length characters is
\* returned unchanged without any call of generate_summary, with or without
\* an llm_service; a call is made only for a longer text.
C16_DirectReturnWithinLimit ==
    /\ (rnPc = "returned"
          /\ Len(combined_content_str) <= max_release_notes_length) =>
           (rn_result = combined_content_str /\ llm_log = <<>>)
    /\ llm_log # <<>> => Len(combined_content_str) > max_release_notes_length

\* a text of exactly the limit, with an llm_service at hand
C16_Witness ==
    /\ rnPc = "returned"
    /\ llm_service
    /\ Len(combined_content_str) = max_release_notes_length
    /\ max_release_notes_length > 1
    /\ rn_result = combined_content_str
    /\ llm_log = <<>>

\* ------------------------------------------------------------------------
\* The two segmenters side by side (checked under SegSpec)
\* ------------------------------------------------------------------------
\* every character of the text is one byte long
AllOneByte(text) == \A k \in 1..Len(text) : CharBytes(text[k]) = 1

\* no paragraph of the text has leading or trailing whitespace
ParagraphsAreStripped(text) ==
    \A k \in 1..Len(SplitParagraphs(text)) :
        Strip(SplitParagraphs(text)[k]) = SplitParagraphs(text)[k]

\* C21: for a text of one-byte characters whose paragraphs have no leading or
\* trailing whitespace, _chunk_text_by_paragraphs(T, B) and _chunk_text(T) with
\* limit B return the same sequence of segments.
C21_SegmentersAgree ==
    (segPc = "returned" /\ paraPc = "returned"
       /\ AllOneByte(segText) /\ ParagraphsAreStripped(segText)) =>
        paraOut = segOut

\* ------------------------------------------------------------------------
\* Further properties of synthesize_to_mp3 (checked under Spec)
\* ------------------------------------------------------------------------
\* C22: the valid-parts list is exactly the part paths of the segments, one
\* per segment, that exist with non-zero size after the production loop, by
\* strictly increasing segment index; the manifest lists them in that order,
\* and the part that is renamed and the parts that are returned are taken
\* from it, whichever segments failed or were skipped.
C22_ValidPartsInSegmentOrder ==
    collected =>
        /\ valid_part_files = OrderedValidParts(loopFs, Len(text_chunks))
        /\ \A a, b \in 1..Len(valid_part_files) :
               a < b => valid_part_files[a][2] < valid_part_files[b][2]
        /\ \A c \in 1..Len(combine_log) : combine_log[c].manifest = valid_part_files
        /\ single_out = "ok" =>
               /\ Len(valid_part_files) = 1
               /\ fs[BasePath] = loopFs[valid_part_files[1]]
               /\ fs[valid_part_files[1]] = Absent
        /\ pc = "done" =>
               result \in {valid_part_files, <<FullPath>>, <<BasePath>>}

\* segment 2 of three left no valid part: parts 1 and 3 are combined in order
C22_Witness ==
    /\ pc = "done" /\ collected
    /\ Len(text_chunks) = 3
    /\ valid_part_files = <<PartPath(1), PartPath(3)>>
    /\ combine_log # <<>>
    /\ combine_log[1].manifest = <<PartPath(1), PartPath(3)>>
    /\ combine_log[1].out = "ok"
    /\ fs[FullPath] = New(<<1, 3>>)

\* C23: base_concat_list.txt does not exist when a call that made a combine
\* attempt returns, whether ffmpeg succeeded, returned a non-zero exit code,
\* was not found, or another exception was raised in the attempt.
C23_ManifestRemoved ==
    (pc = "done" /\ combine_log # <<>>) =>
        /\ combine_log[1].out \in CombineOutcomes
        /\ ~Exists(fs[ListPath])

C23_Witness ==
    /\ pc = "done"
    /\ combine_log # <<>>
    /\ combine_log[1].out = "exception"
    /\ ~Exists(fs[ListPath])
    /\ result = valid_part_files

\* ------------------------------------------------------------------------
\* Further properties of _chunk_text (checked under SegSpec)
\* ------------------------------------------------------------------------
RECURSIVE NonEmptyStripped(_)
\* the paragraphs of a split text, stripped, without the empty ones
NonEmptyStripped(paragraphs) ==
    IF paragraphs = <<>> THEN <<>>
    ELSE IF Strip(Head(paragraphs)) = <<>> THEN NonEmptyStripped(Tail(paragraphs))
    ELSE <<Strip(Head(paragraphs))>> \o NonEmptyStripped(Tail(paragraphs))

RECURSIVE GreedyPack(_, _, _)
\* greedy packing of paragraphs into a buffer: a paragraph within the budget
\* joins a non-empty buffer exactly when buffer + 2-byte separator + paragraph
\* is within the budget; otherwise the buffer is closed and the paragraph
\* starts a new one.  A paragraph larger than the budget closes the buffer and
\* is cut into its own segments.
GreedyPack(paragraphs, buffer, budget) ==
    LET closed == IF buffer = <<>> THEN <<>> ELSE <<buffer>>
    IN  IF paragraphs = <<>> THEN closed
        ELSE LET p == Head(paragraphs)
             IN  IF Utf8Len(p) > budget
                 THEN closed \o split_paragraph_by_sentences(<<>>, p, budget)
                          \o GreedyPack(Tail(paragraphs), <<>>, budget)
                 ELSE IF buffer = <<>> THEN GreedyPack(Tail(paragraphs), p, budget)
                 ELSE IF Utf8Len(buffer) + 2 + Utf8Len(p) <= budget
                 THEN GreedyPack(Tail(paragraphs), buffer \o <<NL, NL>> \o p, budget)
                 ELSE <<buffer>> \o GreedyPack(Tail(paragraphs), p, budget)

\* C24: the segments are the greedy packing of the non-empty paragraphs: a
\* paragraph within the budget is joined to the current buffer (2-byte
\* separator when the buffer is not empty) exactly when the result is within
\* the budget, and otherwise the non-empty buffer is closed as a segment and
\* the paragraph becomes the new buffer.
C24_GreedyParagraphPacking ==
    (segPc = "returned" /\ segText # <<>>) =>
        segOut = FilterBlank(GreedyPack(NonEmptyStripped(SplitParagraphs(segText)),
                                        <<>>, tts_chunk_limit_bytes))

\* two one-byte paragraphs and a budget of 3: together they need 4 bytes, so
\* there is a boundary between them
C24_Witness ==
    /\ segPc = "returned"
    /\ segText = <<"a", NL, NL, "a">>
    /\ tts_chunk_limit_bytes = 3
    /\ segOut = <<<<"a">>, <<"a">>>>

\* C25: _chunk_text terminates for every text and every budget >= 0: every
\* iteration of the hard-split loop, from whatever start index, either leaves
\* the loop or moves the start index forward by at least one character, so a
\* sentence is cut into at most as many pieces as it has characters.
C25_HardSplitAdvancesOrStops ==
    segPc = "returned" =>
        \A s \in HardSplitSentences(segText, tts_chunk_limit_bytes) :
            /\ \A k \in 0..(Len(s) - 1) :
                   LET nx == hard_split_next(s, k, tts_chunk_limit_bytes)
                   IN  nx = -1 \/ (nx > k /\ nx <= Len(s))
            /\ Len(hard_split(s, tts_chunk_limit_bytes)) <= Len(s)
            /\ HardSplitEnd(s, 0, tts_chunk_limit_bytes) <= Len(s)

\* a budget of 0: nothing fits, the loop is left at once and the call returns
C25_Witness ==
    /\ segPc = "returned"
    /\ tts_chunk_limit_bytes = 0
    /\ segText = <<"a", "E">>
    /\ segOut = <<>>

\* C26: whenever a call returns [base_full.mp3], by a successful combine or
\* because the combined file already existed, and no deletion failed, no part
\* file base_partN.mp3 exists when the call returns.
C26_NoPartsBesideCombined ==
    (pc = "done" /\ result = <<FullPath>> /\ delete_failed = {}) =>
        \A p \in PartPaths : ~Exists(fs[p])

\* C27: after a call on a text of two or more segments in which a segment
\* failed (here: a call that started with no file at all), the next call with overwrite = false on the same text, in which
\* every synthesis call and the combine call succeed, returns base_full.mp3
\* built in that call from the parts of all segments.
C27_RecoveryOnReentry ==
    (pc = "done" /\ prev.failed /\ plain_text = prev.text /\ ~overwrite
       /\ Len(text_chunks) >= 2
       /\ (\A c \in 1..Len(synth_log) : synth_log[c].out = "ok")
       /\ (\A d \in 1..Len(combine_log) : combine_log[d].out = "ok")) =>
        /\ result = <<FullPath>>
        /\ fs[FullPath] = New([k \in 1..Len(text_chunks) |-> k])

\* a call is running or has just returned
InCall == pc \in {"loop", "collect", "combine", "single", "done"}

\* base.mp3 is as it was when the call started and is not in the result
BaseUntouched == fs[BasePath] = startFinal[BasePath] /\ BasePath \notin Range(result)

\* C28 as claimed: base.mp3 is created, replaced or returned only by a call
\* whose text was cut into exactly one segment.
C28_BaseOnlyForSingleSegmentText ==
    (InCall /\ Len(text_chunks) # 1) => BaseUntouched

\* C28 as amended: base.mp3 is created, replaced or returned only by a call
\* with exactly one valid part after the production loop, whatever the number
\* of segments; a call with no or with several valid parts leaves it alone.
C28_BaseOnlyForSingleValidPart ==
    (InCall /\ ~(collected /\ Len(valid_part_files) = 1)) => BaseUntouched

\* two segments, the second left no valid part: part 1 becomes base.mp3
C28_Witness ==
    /\ pc = "done" /\ collected
    /\ Len(text_chunks) = 2
    /\ valid_part_files = <<PartPath(1)>>
    /\ single_out = "ok"
    /\ result = <<BasePath>>
    /\ fs[BasePath] = New(<<1>>)

\* ------------------------------------------------------------------------
\* Further properties of _chunk_text_by_paragraphs (checked under SegSpec)
\* ------------------------------------------------------------------------
RECURSIVE NonBlankOnly(_)
\* the paragraphs that are not blank, as they are (not stripped)
NonBlankOnly(paragraphs) ==
    IF paragraphs = <<>> THEN <<>>
    ELSE IF IsBlank(Head(paragraphs)) THEN NonBlankOnly(Tail(paragraphs))
    ELSE <<Head(paragraphs)>> \o NonBlankOnly(Tail(paragraphs))

\* C29: a chunk of _chunk_text_by_paragraphs that holds two or more paragraphs
\* has at most max_chars characters; a chunk is longer than max_chars only if
\* it is exactly one paragraph; and the chunks joined by "\n\n" are the
\* non-blank paragraphs of the text, in their order, joined by "\n\n".
C29_CharChunksAreParagraphGroups ==
    paraPc = "returned" =>
        /\ \A k \in 1..Len(paraOut) :
               /\ Len(SplitParagraphs(paraOut[k])) >= 2 =>
                      Len(paraOut[k]) <= rn_summarization_chunk_char_limit
               /\ Len(paraOut[k]) > rn_summarization_chunk_char_limit =>
                      /\ Len(SplitParagraphs(paraOut[k])) = 1
                      /\ \E j \in 1..Len(SplitParagraphs(segText)) :
                             SplitParagraphs(segText)[j] = paraOut[k]
        /\ JoinWith(paraOut, <<NL, NL>>) =
               JoinWith(NonBlankOnly(SplitParagraphs(segText)), <<NL, NL>>)

\* two paragraphs that fit one chunk exactly
C29_Witness ==
    /\ paraPc = "returned"
    /\ segText = <<"a", NL, NL, "a">>
    /\ rn_summarization_chunk_char_limit = 4
    /\ paraOut = <<<<"a", NL, NL, "a">>>>

\* ------------------------------------------------------------------------
\* GitCastOrchestrator.run (src/gitcast_library/orchestrator.py): the summary
\* stage _generate_summary_script and the hand-over to the TTS stage
\* ------------------------------------------------------------------------
\* utils.load_file_content
load_file_content(f) ==
    CASE f.st = "absent" -> NoneValue
      [] f.st = "empty" -> <<>>
      [] f.st = "unreadable" -> NoneValue
      [] OTHER -> f.text

\* lines 153-155: the existing script is loaded unless it is to be overwritten
load_existing_script(f, ov) ==
    IF f.st # "absent" /\ ~ov THEN load_file_content(f) ELSE NoneValue

\* line 159: if not generated_script or self.config.overwrite_summary
needs_llm(script, ov) == ~Truthy(script) \/ ov

\* mutant of script_after_llm: the reply is handed on whatever it is
script_after_llm_unchecked(reply) == reply

\* lines 166, 175-177: the script is the reply, or None when the reply is empty
\* or an error message
script_after_llm(reply) == IF summary_ok(reply) THEN reply ELSE NoneValue

\* what generate_summary can return here: as LlmReplies, and a blank text
ScriptReplies == LlmReplies \cup {<<SP>>}

\* "ok": the script is written; "fail_before_open": makedirs or open raises
\* IOError, the file is as before; "fail_after_open": write raises IOError
\* after open(.., "w") truncated the file
WriteOutcomes == {"ok", "fail_before_open", "fail_after_open"}

\* run lines 230-231 and _generate_audio_from_script lines 190-207: the call
\* of synthesize_to_mp3 is reached
invokes_tts(script, skip, service) ==
    Truthy(script) /\ ~skip /\ service /\ ~IsBlank(script)

\* run lines 224-227
CollectContent ==
    /\ orchPc = "start"
    /\ orchPc' = IF Truthy(llm_input) THEN "script" ELSE "returned"
    /\ UNCHANGED <<segVars, asmVars, rnVars, llm_input, skip_llm, skip_tts,
                   overwrite_summary, orch_llm_service, orch_tts_service,
                   system_prompt, summary_file, summary_file_at_start,
                   generated_script, script_llm_log, tts_calls>>

\* _generate_summary_script lines 131-159: up to the call of generate_summary
LoadOrGenerate ==
    /\ orchPc = "script"
    /\ IF skip_llm
       THEN /\ generated_script' = IF summary_file.st # "absent"
                                   THEN load_file_content(summary_file)
                                   ELSE NoneValue
            /\ orchPc' = "audio"
       ELSE IF ~orch_llm_service \/ ~Truthy(system_prompt)
       THEN /\ generated_script' = NoneValue
            /\ orchPc' = "audio"
       ELSE LET loaded == load_existing_script(summary_file, overwrite_summary)
            IN  /\ generated_script' = loaded
                /\ orchPc' = IF needs_llm(loaded, overwrite_summary)
                             THEN "llm" ELSE "audio"
    /\ UNCHANGED <<segVars, asmVars, rnVars, llm_input, skip_llm, skip_tts,
                   overwrite_summary, orch_llm_service, orch_tts_service,
                   system_prompt, summary_file, summary_file_at_start,
                   script_llm_log, tts_calls>>

\* _generate_summary_script lines 163-180: the call and the saving
GenerateScript ==
    /\ orchPc = "llm"
    /\ \E reply \in ScriptReplies, w \in WriteOutcomes :
        /\ script_llm_log' = Append(script_llm_log, reply)
        /\ IF summary_ok(reply)
           THEN /\ summary_file' = CASE w = "ok" -> TextFile(reply)
                                     [] w = "fail_after_open" -> EmptyFile
                                     [] OTHER -> summary_file
                /\ generated_script' = IF w = "ok" THEN script_after_llm(reply)
                                       ELSE NoneValue
           ELSE /\ w = "ok"
                /\ summary_file' = summary_file
                /\ generated_script' = script_after_llm(reply)
    /\ orchPc' = "audio"
    /\ UNCHANGED <<segVars, asmVars, rnVars, llm_input, skip_llm, skip_tts,
                   overwrite_summary, orch_llm_service, orch_tts_service,
                   system_prompt, summary_file_at_start, tts_calls>>

\* run lines 230-283 with _generate_audio_from_script
GenerateAudio ==
    /\ orchPc = "audio"
    /\ tts_calls' = IF invokes_tts(generated_script, skip_tts, orch_tts_service)
                    THEN tts_calls + 1 ELSE tts_calls
    /\ orchPc' = "returned"
    /\ UNCHANGED <<segVars, asmVars, rnVars, llm_input, skip_llm, skip_tts,
                   overwrite_summary, orch_llm_service, orch_tts_service,
                   system_prompt, summary_file, summary_file_at_start,
                   generated_script, script_llm_log>>

\* the summary files a run can find
InitialSummaryFiles == {NoFile, EmptyFile, UnreadableFile, TextFile(<<"t">>)}

OrchInit ==
    /\ orchPc = "start"
    /\ llm_input \in {NoneValue, <<"a">>}
    /\ skip_llm \in BOOLEAN
    /\ skip_tts \in BOOLEAN
    /\ overwrite_summary \in BOOLEAN
    /\ orch_llm_service \in BOOLEAN
    /\ orch_tts_service \in BOOLEAN
    /\ system_prompt \in {NoneValue, <<>>, <<"p">>}
    /\ summary_file \in InitialSummaryFiles
    /\ summary_file_at_start = summary_file
    /\ generated_script = NoneValue
    /\ script_llm_log = <<>>
    /\ tts_calls = 0
    /\ paraPc = "off"
    /\ paraOut = <<>>
    /\ rn_summarization_chunk_char_limit = MaxChars
    /\ FetchOff
    /\ tts_chunk_limit_bytes = MaxBudget
    /\ segText = <<>>
    /\ segPc = "off"
    /\ segOut = <<>>
    /\ fs = [p \in Paths |-> Absent]
    /\ pc = "off"
    /\ plain_text = <<>>
    /\ overwrite = FALSE
    /\ text_chunks = <<>>
    /\ i = 1
    /\ part_mp3_files = <<>>
    /\ synthesis_successful_for_all = TRUE
    /\ valid_part_files = <<>>
    /\ result = <<>>
    /\ synth_log = <<>>
    /\ valid_when_reached = {}
    /\ combine_log = <<>>
    /\ delete_failed = {}
    /\ single_out = "-"
    /\ collected = FALSE
    /\ clean = FALSE
    /\ startFinal = Finals(fs)
    /\ loopFs = fs
    /\ prev = NoPrev

OrchNext == CollectContent \/ LoadOrGenerate \/ GenerateScript \/ GenerateAudio

OrchSpec == OrchInit /\ [][OrchNext]_vars

\* ------------------------------------------------------------------------
\* Properties of the summary stage (checked under OrchSpec)
\* ------------------------------------------------------------------------
\* _generate_summary_script was entered with skip_llm false, an llm_service
\* and a system prompt, and has returned
SummaryStageDone ==
    /\ orchPc \in {"audio", "returned"}
    /\ Truthy(llm_input)
    /\ ~skip_llm /\ orch_llm_service /\ Truthy(system_prompt)

\* C30: in the summary stage the LLM is called if and only if
\* overwrite_summary is set or there is no non-empty readable summary file;
\* a failed reply (None, empty, or starting with "error:" in any case) is not
\* written, leaves the summary file as it was, makes the stage yield None, and
\* run() then does not call synthesize_to_mp3.
C30_SummaryStageReentry ==
    SummaryStageDone =>
        /\ Len(script_llm_log) <= 1
        /\ script_llm_log # <<>> <=>
               (overwrite_summary \/ summary_file_at_start.st # "data")
        /\ (script_llm_log # <<>> /\ ReplyFailed(script_llm_log[1])) =>
               /\ summary_file = summary_file_at_start
               /\ generated_script = NoneValue
               /\ tts_calls = 0

\* an existing script is to be overwritten, the LLM answers with an error
\* message: the file is kept and the TTS stage is not entered
C30_Witness ==
    /\ SummaryStageDone
    /\ orchPc = "returned"
    /\ overwrite_summary /\ ~skip_tts /\ orch_tts_service
    /\ summary_file_at_start = TextFile(<<"t">>)
    /\ script_llm_log = <<ErrorReply>>
    /\ summary_file = TextFile(<<"t">>)
    /\ generated_script = NoneValue
    /\ tts_calls = 0

====
